---- MODULE Spec2Model ----
(***************************************************************************)
(* The Go2 autonomy movement connector (MoveUnitreeSDKAdvanceConnector):  *)
(* connect() guards and command builders, the tick() turn-then-advance    *)
(* state machine, _move_robot, clean_abort and the AI status handler.     *)
(*                                                                         *)
(* Every real number of the program is held as an integer number of       *)
(* thousandths: metres as millimetres, degrees as millidegrees, m/s as    *)
(* mm/s.  round(v, 2) therefore rounds to a multiple of 10.               *)
(***************************************************************************)
EXTENDS Integers, Sequences, FiniteSets, TLC

VARIABLES
    pending_movements,   \* self.pending_movements: FIFO queue of MoveCommand
    movement_attempts,   \* self.movement_attempts
    gap_previous,        \* self.gap_previous
    ai_control_enabled,  \* self.ai_control_enabled
    sport_client,        \* self.sport_client is not None
    mode,                \* self.mode
    issued,              \* velocity commands passed to _move_robot by the last handler call
    sport_calls,         \* calls made on self.sport_client by the last handler call
    published,           \* AIStatusResponse codes published by the last handler call
    op,                  \* the handler that ran last: "connect", "tick", "ai_status", "clean_abort"
    threads,             \* where a connect() thread and a tick() thread stand between queue operations
    calc,                \* a call of one of the angle helpers: its arguments and what it returned
    keepalive,           \* the BluetoothKeepAliveProvider and the threads calling it
    navigation           \* the UnitreeGo2NavigationProvider

vars == <<pending_movements, movement_attempts, gap_previous, ai_control_enabled,
          sport_client, mode, issued, sport_calls, published, op, threads, calc,
          keepalive, navigation>>

\* the two providers, which no handler of the connector touches
providers == <<keepalive, navigation>>

----------------------------------------------------------------------------
\* Program constants (thousandths).

turn_speed == 800
angle_tolerance == 5000
distance_tolerance == 50
movement_attempt_limit == 15
coarse_gap == 10000
fine_turn_speed == 200
overshoot_speed == 200
creep_step == 150
half_turn == 180000
full_turn == 360000
jointLock_code == 1002
straight_path == 4
forward_dx == 500
back_dx == 500
back_speed == 200
default_speed == 500

----------------------------------------------------------------------------
\* Arithmetic helpers.

Abs(v) == IF v < 0 THEN -v ELSE v

\* Python round(v, 2) on a value held in thousandths: nearest multiple of 10,
\* a tie going to the even hundredth.  (On a tie the binary float decides in
\* Python; none of the poses and yaws used below produces one.)
Round2(v) ==
    LET a == Abs(v)
        q == a \div 10
        r == a % 10
        m == IF r < 5 THEN q
             ELSE IF r > 5 THEN q + 1
             ELSE IF q % 2 = 0 THEN q ELSE q + 1
    IN  IF v < 0 THEN -(m * 10) ELSE m * 10

RECURSIVE SqrtSearch(_, _, _)
SqrtSearch(n, lo, hi) ==
    IF lo >= hi THEN lo
    ELSE LET mid == (lo + hi + 1) \div 2
         IN  IF mid * mid <= n THEN SqrtSearch(n, mid, hi)
             ELSE SqrtSearch(n, lo, mid - 1)

\* floor(math.sqrt(n)) for the squared distance n = ax^2 + ay^2
FloorSqrt(n, ax, ay) == SqrtSearch(n, 0, Abs(ax) + Abs(ay))

\* squared distance_traveled of tick(): (odom_x - s_x)^2 + (odom_y - s_y)^2
DistanceSquared(x, y, s_x, s_y) == (x - s_x) * (x - s_x) + (y - s_y) * (y - s_y)

\* gap = round(abs(goal_dx - distance_traveled), 2) with distance_traveled = sqrt(n).
\* When n is no perfect square the real value lies strictly between two
\* consecutive thousandths a and a + 1, and rounds as a + 1/2 does.
DistanceGap(goal_dx, x, y, s_x, s_y) ==
    LET n == DistanceSquared(x, y, s_x, s_y)
        f == FloorSqrt(n, x - s_x, y - s_y)
    IN  IF f * f = n THEN Round2(Abs(goal_dx - f))
        ELSE LET a == IF goal_dx > f THEN goal_dx - f - 1 ELSE f - goal_dx
             IN  10 * ((a + 5) \div 10)

----------------------------------------------------------------------------
\* Angle helpers.

\* seeded fault: no correction is made
normalize_angle_no_wrap(angle) == angle

\* seeded fault: the correction is half a turn
normalize_angle_half_wrap(angle) ==
    IF angle < -half_turn THEN angle + half_turn
    ELSE IF angle > half_turn THEN angle - half_turn
    ELSE angle

normalize_angle(angle) ==
    IF angle < -half_turn THEN angle + full_turn
    ELSE IF angle > half_turn THEN angle - full_turn
    ELSE angle

\* seeded fault: the sign of the gap is dropped
calculate_angle_gap_unsigned(current, target) ==
    LET gap == Abs(current - target)
    IN  Round2(IF gap > half_turn THEN full_turn - gap ELSE gap)

calculate_angle_gap(current, target) ==
    LET gap == current - target
    IN  Round2(IF gap > half_turn THEN gap - full_turn
               ELSE IF gap < -half_turn THEN gap + full_turn
               ELSE gap)

----------------------------------------------------------------------------
\* MoveCommand and the path provider.

MoveCommand(dx, yaw, start_x, start_y, turn_complete, speed) ==
    [dx |-> dx, yaw |-> yaw, start_x |-> start_x, start_y |-> start_y,
     turn_complete |-> turn_complete, speed |-> speed]

\* path_provider.path_angles, indexed by path id 0..9 (sequence index id + 1)
path_angles == <<60000, 45000, 30000, 15000, 0, -15000, -30000, -45000, -60000, 180000>>

PathAngle(p) == path_angles[p + 1]

SetMin(S) == CHOOSE m \in S : \A o \in S : m <= o
SetMax(S) == CHOOSE m \in S : \A o \in S : m >= o

Paths(advance, retreat, turn_left, turn_right) ==
    [advance |-> advance, retreat |-> retreat,
     turn_left |-> turn_left, turn_right |-> turn_right]

----------------------------------------------------------------------------
\* Results of a handler call: the controller fields it leaves behind and the
\* calls it made.

Outcome(q, att, gp, iss, sp) ==
    [q |-> q, att |-> att, gp |-> gp, issued |-> iss, sport |-> sp]

Velocity(vx, vy, vturn) == [f |-> "Move", vx |-> vx, vy |-> vy, vturn |-> vturn]

BalanceStand == [f |-> "BalanceStand", vx |-> 0, vy |-> 0, vturn |-> 0]

\* _move_robot: the velocity command it is asked for, and the calls that reach
\* the sport client.  env.standing_at_move is body_attitude == STANDING as
\* read inside _move_robot, env.jointLock is unitree_go2_state.state == "jointLock".
move_robot_calls(vx, vy, vturn, env) ==
    IF ~sport_client THEN <<>>
    ELSE IF ~env.standing_at_move THEN <<>>
    ELSE (IF env.jointLock THEN <<BalanceStand>> ELSE <<>>) \o <<Velocity(vx, vy, vturn)>>

\* A handler outcome in which _move_robot(vx, vy, vturn) was called once.
Moved(q, att, gp, vx, vy, vturn, env) ==
    Outcome(q, att, gp, <<Velocity(vx, vy, vturn)>>, move_robot_calls(vx, vy, vturn, env))

\* seeded fault: the counter is left as it is
clean_abort_keeps_counter(q, gp) ==
    Outcome(IF Len(q) > 0 THEN Tail(q) ELSE q, movement_attempts, gp, <<>>, <<>>)

\* seeded fault: the counter is reset only when there is nothing to remove
clean_abort_resets_when_empty(q, gp) ==
    IF Len(q) > 0 THEN Outcome(Tail(q), movement_attempts, gp, <<>>, <<>>)
    ELSE Outcome(q, 0, gp, <<>>, <<>>)

\* clean_abort: movement_attempts = 0, and one get() if the queue is not empty.
clean_abort(q, gp) ==
    Outcome(IF Len(q) > 0 THEN Tail(q) ELSE q, 0, gp, <<>>, <<>>)

\* _execute_turn: FALSE when the turn direction is blocked.
execute_turn_clear(gap, paths) ==
    IF gap > 0 THEN paths.turn_left # {} ELSE paths.turn_right # {}

\* seeded fault: the rotation goes against the gap
execute_turn_velocity_reversed(gap, paths) ==
    IF gap > 0
    THEN Velocity(SetMin(paths.turn_left) * creep_step, 0, -turn_speed)
    ELSE Velocity((8 - SetMax(paths.turn_right)) * creep_step, 0, turn_speed)

\* _execute_turn when clear: the (vx, vturn) it passes to _move_robot.
execute_turn_velocity(gap, paths) ==
    IF gap > 0
    THEN Velocity(SetMin(paths.turn_left) * creep_step, 0, turn_speed)
    ELSE Velocity((8 - SetMax(paths.turn_right)) * creep_step, 0, -turn_speed)

\* seeded fault: the chain compares against the distance tolerance
turn_phase_wrong_tolerance(gap) ==
    IF Abs(gap) > coarse_gap THEN "coarse"
    ELSE IF Abs(gap) > distance_tolerance /\ Abs(gap) <= coarse_gap THEN "fine"
    ELSE IF Abs(gap) <= distance_tolerance THEN "done"
    ELSE "none"

\* The if / elif / elif chain of phase 1 on abs(gap).
turn_phase(gap) ==
    IF Abs(gap) > coarse_gap THEN "coarse"
    ELSE IF Abs(gap) > angle_tolerance /\ Abs(gap) <= coarse_gap THEN "fine"
    ELSE IF Abs(gap) <= angle_tolerance THEN "done"
    ELSE "none"

\* seeded fault: completing the turn also clears the target heading
turn_completed_clears_yaw(cur) == [cur EXCEPT !.turn_complete = TRUE, !.yaw = 0]

\* current_target.turn_complete = True (the queued object itself is changed)
turn_completed(cur) == [cur EXCEPT !.turn_complete = TRUE]

\* Phase 1 of tick(): turn to face the target direction.
tick_turning(cur, env) ==
    LET q == pending_movements
        gap == calculate_angle_gap(-1 * env.yaw, cur.yaw)
        phase == turn_phase(gap)
    IN  IF phase = "coarse"
        THEN IF ~execute_turn_clear(gap, env.paths)
             THEN clean_abort(q, gap)
             ELSE LET v == execute_turn_velocity(gap, env.paths)
                  IN  Moved(q, movement_attempts + 1, gap, v.vx, v.vy, v.vturn, env)
        ELSE IF phase = "fine"
        THEN IF gap > 0
             THEN Moved(q, movement_attempts + 1, gap, 0, 0, fine_turn_speed, env)
             ELSE IF gap < 0
             THEN Moved(q, movement_attempts + 1, gap, 0, 0, -fine_turn_speed, env)
             ELSE Outcome(q, movement_attempts + 1, gap, <<>>, <<>>)
        ELSE IF phase = "done"
        THEN Outcome(<<turn_completed(cur)>> \o Tail(q), movement_attempts, 0, <<>>, <<>>)
        ELSE Outcome(q, movement_attempts, gap, <<>>, <<>>)

\* seeded fault: the retreat barrier check is missing
advance_blocked_forward_only(goal_dx, paths) ==
    goal_dx > 0 /\ straight_path \notin paths.advance

\* seeded fault: any offered advance path lets a forward command through
advance_blocked_no_path(goal_dx, paths) ==
    \/ goal_dx > 0 /\ paths.advance = {}
    \/ goal_dx < 0 /\ ~paths.retreat

\* The barrier check of phase 2: TRUE when tick() aborts "due to barrier".
advance_blocked(goal_dx, paths) ==
    \/ goal_dx > 0 /\ straight_path \notin paths.advance
    \/ goal_dx < 0 /\ ~paths.retreat

\* seeded fault: the dx == 0 shortcut is missing
no_movement_required_never(goal_dx) == FALSE

\* "No movement required": the goal_dx == 0 test of phase 2.
no_movement_required(goal_dx) == goal_dx = 0

\* seeded fault: the overshoot correction keeps the direction of travel
overshoot_velocity_same_way(fb) == fb * overshoot_speed

\* vx of the overshoot correction: -1 * fb * 0.2
overshoot_velocity(fb) == -1 * fb * overshoot_speed

\* Phase 2 of tick(): move towards the target position.
tick_advancing(cur, env) ==
    LET q == pending_movements
        goal_dx == cur.dx
    IN  IF no_movement_required(goal_dx) THEN clean_abort(q, gap_previous)
        ELSE
        LET n == DistanceSquared(env.x, env.y, cur.start_x, cur.start_y)
            gap == DistanceGap(goal_dx, env.x, env.y, cur.start_x, cur.start_y)
            fb == IF goal_dx > 0 THEN 1 ELSE -1
            reach == Abs(goal_dx) * Abs(goal_dx)
        IN  IF advance_blocked(goal_dx, env.paths) THEN clean_abort(q, gap)
            ELSE IF gap > distance_tolerance
            THEN IF n < reach
                 THEN Moved(q, movement_attempts + 1, gap, fb * cur.speed, 0, 0, env)
                 ELSE IF n > reach
                 THEN Moved(q, movement_attempts + 1, gap, overshoot_velocity(fb), 0, 0, env)
                 ELSE Outcome(q, movement_attempts + 1, gap, <<>>, <<>>)
            ELSE clean_abort(q, gap)

\* seeded fault: a tick does nothing while AI control is disabled
tick_deferred_when_disabled(env) == env.x = 0 \/ ~env.standing \/ ~ai_control_enabled

\* seeded fault: the posture check is missing
tick_deferred_sentinel_only(env) == env.x = 0

\* The early returns of tick(): sentinel odom_x, or body_attitude not STANDING.
tick_deferred(env) == env.x = 0 \/ ~env.standing

\* seeded fault: the timeout fires at the limit instead of past it (>=)
timed_out_at_limit(attempts) == attempts >= movement_attempt_limit

\* seeded fault: the timeout never fires
timed_out_never(attempts) == FALSE

\* seeded fault: the timeout allows one more attempt
timed_out_one_late(attempts) == attempts > movement_attempt_limit + 1

\* "TIMEOUT - not converging": movement_attempts > movement_attempt_limit
timed_out(attempts) == attempts > movement_attempt_limit

\* tick(): env is what the call reads from the odom, path and state providers.
tick(env) ==
    LET q == pending_movements
        idle == Outcome(q, movement_attempts, gap_previous, <<>>, <<>>)
    IN  IF tick_deferred(env) THEN idle
        ELSE IF Len(q) = 0 THEN idle
        ELSE IF timed_out(movement_attempts)
        THEN clean_abort(q, gap_previous)
        ELSE IF ~q[1].turn_complete THEN tick_turning(q[1], env)
        ELSE tick_advancing(q[1], env)

----------------------------------------------------------------------------
\* connect(): the guards and the command builders.

put(q, cmd) == Append(q, cmd)

\* the list random.choice draws from for an action (empty: no draw is made)
offered(action, paths) ==
    CASE action = "turn left" -> paths.turn_left
      [] action = "turn right" -> paths.turn_right
      [] action = "move forwards" -> paths.advance
      [] OTHER -> {}

\* _process_turn_left / _process_turn_right, path being random.choice's draw
process_turn(q, path, env) ==
    put(q, MoveCommand(forward_dx,
                       Round2(normalize_angle(-1 * env.yaw + PathAngle(path))),
                       Round2(env.x), Round2(env.y), FALSE, default_speed))

\* seeded fault: the turn_left barrier check of the builder is missing
process_turn_left_unchecked(q, path, env) == process_turn(q, path, env)

process_turn_left(q, path, env) ==
    IF env.paths.turn_left = {} THEN q ELSE process_turn(q, path, env)

process_turn_right(q, path, env) ==
    IF env.paths.turn_right = {} THEN q ELSE process_turn(q, path, env)

\* seeded fault: the builder never marks the turn complete
process_move_forward_always_turns(q, path, env) ==
    IF env.paths.advance = {} THEN q
    ELSE put(q, MoveCommand(forward_dx,
                            normalize_angle(-1 * env.yaw + PathAngle(path)),
                            Round2(env.x), Round2(env.y),
                            FALSE, default_speed))

process_move_forward(q, path, env) ==
    IF env.paths.advance = {} THEN q
    ELSE put(q, MoveCommand(forward_dx,
                            normalize_angle(-1 * env.yaw + PathAngle(path)),
                            Round2(env.x), Round2(env.y),
                            PathAngle(path) = 0, default_speed))

\* seeded fault: the retreat barrier check of the builder is missing
process_move_back_unchecked(q, env) ==
    put(q, MoveCommand(-back_dx, 0, Round2(env.x), Round2(env.y), TRUE, back_speed))

\* seeded fault: the backward command keeps the default speed
process_move_back_default_speed(q, env) ==
    IF ~env.paths.retreat THEN q
    ELSE put(q, MoveCommand(-back_dx, 0, Round2(env.x), Round2(env.y), TRUE, default_speed))

process_move_back(q, env) ==
    IF ~env.paths.retreat THEN q
    ELSE put(q, MoveCommand(-back_dx, 0, Round2(env.x), Round2(env.y), TRUE, back_speed))

\* movement_map dispatch
dispatch(q, path, env) ==
    CASE env.action = "turn left" -> process_turn_left(q, path, env)
      [] env.action = "turn right" -> process_turn_right(q, path, env)
      [] env.action = "move forwards" -> process_move_forward(q, path, env)
      [] env.action = "move back" -> process_move_back(q, env)
      [] OTHER -> q

\* seeded fault: the queue test off by one (qsize() > 1)
queue_busy_off_by_one(q) == Len(q) > 1

\* "Movement in progress": pending_movements.qsize() > 0
queue_busy(q) == Len(q) > 0

\* the BalanceStand() of the jointLock check
connect_recovery(env) ==
    IF env.state_code = jointLock_code /\ sport_client THEN <<BalanceStand>> ELSE <<>>

\* connect(): env is the intent and what the call reads from the providers;
\* state_code 0 stands for a state provider without a state code (None or 0).
connect(env, path) ==
    LET q == pending_movements
        same(sp) == Outcome(q, movement_attempts, gap_previous, <<>>, sp)
    IN  IF mode = "guard" /\ env.unknown_faces > 0 THEN same(<<>>)
        ELSE IF ~ai_control_enabled THEN same(<<>>)
        ELSE IF env.action_progress # 0 THEN same(connect_recovery(env))
        ELSE IF env.state_code = 0 /\ env.moving THEN same(connect_recovery(env))
        ELSE IF queue_busy(q) THEN same(connect_recovery(env))
        ELSE IF env.x = 0 THEN same(connect_recovery(env))
        ELSE Outcome(dispatch(q, path, env), movement_attempts, gap_previous,
                     <<>>, connect_recovery(env))

\* _zenoh_ai_status_request: the flag it leaves and the response code it publishes
\* seeded fault: a disable request leaves the flag as it is
ai_status_flag_never_disabled(code) ==
    IF code = 1 THEN TRUE ELSE ai_control_enabled

ai_status_flag(code) ==
    IF code = 1 THEN TRUE ELSE IF code = 0 THEN FALSE ELSE ai_control_enabled

ai_status_response(code) ==
    IF code = 2 THEN <<IF ai_control_enabled THEN 1 ELSE 0>>
    ELSE IF code = 1 THEN <<1>>
    ELSE IF code = 0 THEN <<0>>
    ELSE <<>>

----------------------------------------------------------------------------
\* The inputs the handlers are driven with.

AllClear == Paths({3, 4, 5}, TRUE, {1, 2}, {6, 7})
AllBlocked == Paths({}, FALSE, {}, {})
SideOnly == Paths({3, 5}, FALSE, {2}, {})
RightOnly == Paths({4}, TRUE, {}, {6})

PathSnapshots == {AllClear, AllBlocked, SideOnly, RightOnly}

\* odom_yaw_m180_p180 values; the heading used by the controller is -yaw
Yaws == {0, -7004, -12000}

\* (odom_x, odom_y); <<0, 0>> is the sentinel of a booting odometry
StartPose == <<1003, 2000>>
Poses == {<<0, 0>>, StartPose, <<1447, 2000>>, <<1403, 2300>>, <<1553, 2000>>, <<1603, 2000>>}

TickInputs == {env : env \in
    {e \in [x : {p[1] : p \in Poses}, y : {p[2] : p \in Poses}, yaw : Yaws,
            standing : BOOLEAN, standing_at_move : BOOLEAN,
            paths : PathSnapshots, jointLock : BOOLEAN] :
        /\ <<e.x, e.y>> \in Poses
        /\ e.standing_at_move => e.standing
        /\ e.jointLock => e.standing_at_move
        /\ (e.x = 0 \/ ~e.standing_at_move \/ e.jointLock) => e.paths = AllClear
        /\ (e.x = 0 \/ ~e.standing) => e.yaw = 0}}

MaxFaces == 1

Actions == {"turn left", "turn right", "move forwards", "move back", "stand still", "dance"}

ConnectInputs == {env : env \in
    {e \in [action : Actions, unknown_faces : 0 .. MaxFaces, state_code : {0, jointLock_code, 100},
            action_progress : {0, 1}, moving : BOOLEAN,
            x : {0, StartPose[1]}, y : {0, StartPose[2]}, yaw : {0, -4, -12000},
            paths : PathSnapshots] :
        /\ <<e.x, e.y>> \in Poses
        /\ (e.unknown_faces > 0 \/ e.action_progress # 0 \/ e.moving \/ e.x = 0)
              => e.action = "move back"
        /\ (e.unknown_faces > 0 \/ e.action_progress # 0 \/ e.moving \/ e.x = 0
              \/ e.state_code # 0) => (e.yaw = 0 /\ e.paths = AllClear)
        /\ e.state_code # 0 => e.action \in {"move back", "move forwards"}
        /\ e.action = "turn left" => e.yaw = 0
        /\ e.action = "turn right" => e.yaw \in {0, -4}
        /\ e.yaw = -4 => e.action = "turn right"}}

Draws(env) ==
    IF offered(env.action, env.paths) = {} THEN {straight_path}
    ELSE offered(env.action, env.paths)

MaxStatusCode == 3
StatusCodes == 0 .. MaxStatusCode

----------------------------------------------------------------------------
\* The state machine.

\* Both handlers between calls.  submit_pc and tick_pc are the positions of
\* the two threads, target is the snapshot list(pending_movements.queue) of the
\* running tick, serials names the object behind each queued command (the
\* k-th command put has serial k), puts counts put() calls, got is the serial
\* the running tick's get() returned, blocked is set by a get() on an empty queue.
IdleThreads ==
    [submit_pc |-> "idle", tick_pc |-> "idle", target |-> <<>>, serials |-> <<>>,
     puts |-> 0, got |-> 0, blocked |-> FALSE]

\* a helper call: f names the helper ("input" before the call), a and b are
\* the arguments, r the result, r2 the result of the companion call
Calc(f, a, b, r, r2) == [f |-> f, a |-> a, b |-> b, r |-> r, r2 |-> r2]

NoCalc == Calc("none", 0, 0, 0, 0)

\* BluetoothKeepAliveProvider after __init__, no thread inside a call: lock is
\* the thread holding self._lock ("none" when free), pc the position of each
\* thread, arg the provider a register call was given, seen the value of
\* enabled the toggling thread read, calls the calls each thread has begun
KeepAliveThreads == {"register1", "register2", "toggle"}

NewKeepAlive ==
    [lock |-> "none", tts_providers |-> <<>>, enabled |-> TRUE,
     pc |-> [t \in KeepAliveThreads |-> "idle"],
     arg |-> [t \in KeepAliveThreads |-> "none"],
     seen |-> TRUE,
     calls |-> [t \in KeepAliveThreads |-> 0]]

\* UnitreeGo2NavigationProvider after __init__: session and io tell whether
\* the Zenoh session and the IOProvider could be had; ai_enabled is the
\* runtime variable; sent lists the AIStatusRequest codes the last call put on
\* om/ai/request, cancels the puts it made on the cancel topic
NewNavigation(session, io) ==
    [session |-> session, io |-> io, navigation_status |-> "UNKNOWN",
     nav_in_progress |-> FALSE, goal |-> FALSE, ai_enabled |-> TRUE,
     sent |-> <<>>, last_code |-> -1, cancels |-> 0, call |-> "init"]

Init ==
    /\ pending_movements = <<>>
    /\ movement_attempts = 0
    /\ gap_previous = 0
    /\ ai_control_enabled = TRUE
    /\ sport_client \in BOOLEAN
    /\ mode \in {"none", "guard"}
    /\ issued = <<>>
    /\ sport_calls = <<>>
    /\ published = <<>>
    /\ op = "init"
    /\ threads = IdleThreads
    /\ calc = NoCalc
    /\ keepalive = NewKeepAlive
    /\ navigation = NewNavigation(TRUE, TRUE)

Apply(r) ==
    /\ pending_movements' = r.q
    /\ movement_attempts' = r.att
    /\ gap_previous' = r.gp
    /\ issued' = r.issued
    /\ sport_calls' = r.sport
    /\ published' = <<>>
    /\ UNCHANGED <<ai_control_enabled, sport_client, mode, threads, calc, providers>>

Connect(env, path) == Apply(connect(env, path)) /\ op' = "connect"

Tick(env) == Apply(tick(env)) /\ op' = "tick"

AiStatusRequest(code) ==
    /\ ai_control_enabled' = ai_status_flag(code)
    /\ published' = ai_status_response(code)
    /\ issued' = <<>>
    /\ sport_calls' = <<>>
    /\ op' = "ai_status"
    /\ UNCHANGED <<pending_movements, movement_attempts, gap_previous, sport_client, mode,
                   threads, calc, providers>>

\* clean_abort() called from outside tick(): the cancellation of the current command
CleanAbort == Apply(clean_abort(pending_movements, gap_previous)) /\ op' = "clean_abort"

\* A provider field that the call does not get to read carries a fixed filler
\* value: the outcome does not depend on it.  connect() stops reading at its
\* first failing guard (and reads unknown_faces only in guard mode, the moving
\* flag only without a state code) ...
ConnectReads(env) ==
    LET early == (mode = "guard" /\ env.unknown_faces > 0) \/ ~ai_control_enabled
        stopped == \/ early
                   \/ env.action_progress # 0
                   \/ (env.state_code = 0 /\ env.moving)
                   \/ queue_busy(pending_movements)
    IN  /\ mode # "guard" => env.unknown_faces = 0
        /\ early => (env.state_code = 0 /\ env.action_progress = 0)
        /\ (early \/ env.action_progress # 0 \/ env.state_code # 0) => ~env.moving
        /\ stopped => (env.x # 0 /\ env.yaw = 0 /\ env.paths = AllClear)

\* ... and tick() reads the yaw only in phase 1, the position (beyond the
\* sentinel test) only in phase 2, the paths and the state only in a phase.
TickReads(env) ==
    LET q == pending_movements
        active == ~tick_deferred(env) /\ Len(q) > 0 /\ ~timed_out(movement_attempts)
        turning == active /\ ~q[1].turn_complete
        advancing == active /\ q[1].turn_complete
    IN  /\ ~advancing => <<env.x, env.y>> \in {<<0, 0>>, StartPose}
        /\ ~turning => env.yaw = 0
        /\ ~active => (env.paths = AllClear /\ ~env.jointLock
                        /\ env.standing_at_move = env.standing)

\* the calls that can be made in the current state
ConnectCalls == {env \in ConnectInputs : ConnectReads(env)}
TickCalls == {env \in TickInputs : TickReads(env)}

Next ==
    \/ \E env \in ConnectCalls : \E path \in Draws(env) : Connect(env, path)
    \/ \E env \in TickCalls : Tick(env)
    \/ \E code \in StatusCodes : AiStatusRequest(code)
    \/ CleanAbort

Spec == Init /\ [][Next]_vars

\* The same machine started with one MoveCommand already in the queue, as a
\* caller of the public queue can put it there: any target, either phase,
\* any displacement (dx == 0 included, which no builder of connect() produces).
InjectedCommands ==
    {MoveCommand(dx, 15000, Round2(StartPose[1]), Round2(StartPose[2]), tc, default_speed) :
        dx \in {0, forward_dx, -back_dx}, tc \in BOOLEAN}

InitInjected ==
    /\ pending_movements \in {<<c>> : c \in InjectedCommands}
    /\ movement_attempts = 0
    /\ gap_previous = 0
    /\ ai_control_enabled = TRUE
    /\ sport_client \in BOOLEAN
    /\ mode \in {"none", "guard"}
    /\ issued = <<>>
    /\ sport_calls = <<>>
    /\ published = <<>>
    /\ op = "init"
    /\ threads = IdleThreads
    /\ calc = NoCalc
    /\ keepalive = NewKeepAlive
    /\ navigation = NewNavigation(TRUE, TRUE)

SpecInjected == InitInjected /\ [][Next]_vars

----------------------------------------------------------------------------
\* connect() on one thread and tick() on another, interleaved between the
\* individual operations on pending_movements.  What a handler decides from
\* its provider reads is left open: every branch can be taken.

MaxPuts == 3

\* the intents the submit thread brings to the queue test
ThreadIntents == {env : env \in
    {e \in ConnectInputs : /\ e.action \in {"move forwards", "move back"}
                           /\ e.unknown_faces = 0 /\ e.action_progress = 0 /\ ~e.moving
                           /\ e.state_code = 0 /\ e.x # 0 /\ e.yaw = 0
                           /\ e.paths \in {AllClear, AllBlocked}}}

\* seeded fault: the queue test lets every intent through
qsize_passed_always(q) == TRUE

\* connect() gets past "if self.pending_movements.qsize() > 0: return"
qsize_passed(q) == ~queue_busy(q)

ThreadFrame ==
    UNCHANGED <<gap_previous, ai_control_enabled, sport_client, mode, issued,
                sport_calls, published, calc, providers>>

\* submit thread: the qsize() test of connect()
SubmitQsize ==
    /\ threads.submit_pc = "idle"
    /\ threads.puts < MaxPuts
    /\ threads' = [threads EXCEPT
                     !.submit_pc = IF qsize_passed(pending_movements) THEN "put" ELSE "idle"]
    /\ op' = "connect"
    /\ UNCHANGED <<pending_movements, movement_attempts>>
    /\ ThreadFrame

\* submit thread: the builder, with its put() when the direction is clear
SubmitPut(env, path) ==
    /\ threads.submit_pc = "put"
    /\ pending_movements' = dispatch(pending_movements, path, env)
    /\ threads' = IF Len(pending_movements') > Len(pending_movements)
                  THEN [threads EXCEPT !.submit_pc = "idle", !.puts = @ + 1,
                                       !.serials = Append(@, threads.puts + 1)]
                  ELSE [threads EXCEPT !.submit_pc = "idle"]
    /\ op' = "connect"
    /\ UNCHANGED movement_attempts
    /\ ThreadFrame

\* tick thread: target = list(self.pending_movements.queue)
TickSnapshot ==
    /\ threads.tick_pc = "idle"
    /\ threads' = [threads EXCEPT
                     !.target = threads.serials, !.got = 0,
                     !.tick_pc = IF Len(threads.serials) > 0 THEN "inspected" ELSE "idle"]
    /\ op' = "tick"
    /\ UNCHANGED <<pending_movements, movement_attempts>>
    /\ ThreadFrame

\* the queue after current_target.turn_complete = True on the inspected object
TurnCompletedInPlace ==
    [i \in 1 .. Len(pending_movements) |->
        IF threads.serials[i] = threads.target[1]
        THEN turn_completed(pending_movements[i]) ELSE pending_movements[i]]

\* tick thread: the tick returns with the command kept
TickKeep ==
    /\ threads.tick_pc = "inspected"
    /\ \E done \in BOOLEAN :
          pending_movements' = IF done THEN TurnCompletedInPlace ELSE pending_movements
    /\ threads' = [threads EXCEPT !.tick_pc = "idle"]
    /\ op' = "tick"
    /\ UNCHANGED movement_attempts
    /\ ThreadFrame

\* tick thread: the tick enters clean_abort (self.movement_attempts = 0)
TickAbort ==
    /\ threads.tick_pc = "inspected"
    /\ movement_attempts' = 0
    /\ threads' = [threads EXCEPT !.tick_pc = "abort"]
    /\ op' = "tick"
    /\ UNCHANGED pending_movements
    /\ ThreadFrame

\* tick thread: the empty() test of clean_abort
TickEmpty ==
    /\ threads.tick_pc = "abort"
    /\ threads' = [threads EXCEPT
                     !.tick_pc = IF Len(pending_movements) > 0 THEN "get" ELSE "idle"]
    /\ op' = "tick"
    /\ UNCHANGED <<pending_movements, movement_attempts>>
    /\ ThreadFrame

\* tick thread: the get() of clean_abort; on an empty queue it would block
TickGet ==
    /\ threads.tick_pc = "get"
    /\ IF Len(pending_movements) > 0
       THEN /\ pending_movements' = Tail(pending_movements)
            /\ threads' = [threads EXCEPT !.tick_pc = "idle", !.got = Head(threads.serials),
                                          !.serials = Tail(@)]
       ELSE /\ pending_movements' = pending_movements
            /\ threads' = [threads EXCEPT !.blocked = TRUE]
    /\ op' = "tick"
    /\ UNCHANGED movement_attempts
    /\ ThreadFrame

NextThreads ==
    \/ SubmitQsize
    \/ \E env \in ThreadIntents : \E path \in Draws(env) : SubmitPut(env, path)
    \/ TickSnapshot
    \/ TickKeep
    \/ TickAbort
    \/ TickEmpty
    \/ TickGet

SpecThreads == Init /\ [][NextThreads]_vars

----------------------------------------------------------------------------
\* The angle helpers and the yaw of the commands the builders make, called
\* on angles around every multiple of 60 degrees up to MaxTurns of them.

MaxTurns == 15

\* angles: multiples of 60 degrees and their neighbours at 0.002 and 0.004
\* (no difference of two samples is a rounding tie)
AngleSamples == {k * 60000 + d : k \in -MaxTurns .. MaxTurns, d \in {-4, -2, 0, 2, 4}}

\* headings in (-180, 180]
HeadingSamples ==
    {k * 60000 + d : k \in -3 .. 3, d \in {-4, 0, 4}} \ {-180000, -180004, 180004}

IsHeading(a) == a > -half_turn /\ a <= half_turn

InitAngles ==
    /\ pending_movements = <<>>
    /\ movement_attempts = 0
    /\ gap_previous = 0
    /\ ai_control_enabled = TRUE
    /\ sport_client = TRUE
    /\ mode = "none"
    /\ issued = <<>>
    /\ sport_calls = <<>>
    /\ published = <<>>
    /\ op = "init"
    /\ threads = IdleThreads
    /\ keepalive = NewKeepAlive
    /\ navigation = NewNavigation(TRUE, TRUE)
    /\ calc \in {Calc("input", a, b, 0, 0) : a \in AngleSamples, b \in HeadingSamples}

CalcFrame ==
    UNCHANGED <<pending_movements, movement_attempts, gap_previous, ai_control_enabled,
                sport_client, mode, issued, sport_calls, published, op, threads, providers>>

\* r = _normalize_angle(a)
NormalizeAngle ==
    /\ calc.f = "input"
    /\ calc' = [calc EXCEPT !.f = "normalize_angle", !.r = normalize_angle(calc.a)]
    /\ CalcFrame

\* r2 = _normalize_angle(r)
NormalizeAgain ==
    /\ calc.f = "normalize_angle"
    /\ calc' = [calc EXCEPT !.f = "normalize_twice", !.r2 = normalize_angle(calc.r)]
    /\ CalcFrame

\* r = _calculate_angle_gap(a, b), r2 = _calculate_angle_gap(b, a)
CalculateAngleGap ==
    /\ calc.f = "input" /\ IsHeading(calc.a)
    /\ calc' = [calc EXCEPT !.f = "calculate_angle_gap",
                            !.r = calculate_angle_gap(calc.a, calc.b),
                            !.r2 = calculate_angle_gap(calc.b, calc.a)]
    /\ CalcFrame

\* what the builders read when the heading (-1 * odom yaw) is a
BuilderReads(a) ==
    [yaw |-> -1 * a, x |-> StartPose[1], y |-> StartPose[2], paths |-> AllClear]

\* r = yaw of the command _process_turn_left / _process_turn_right builds
\* from heading a when random.choice draws path
BuildTurn(path) ==
    /\ calc.f = "input" /\ IsHeading(calc.a)
    /\ calc' = [calc EXCEPT !.f = "turn", !.b = path,
                            !.r = process_turn(<<>>, path, BuilderReads(calc.a))[1].yaw]
    /\ CalcFrame

\* r = yaw of the command _process_move_forward builds from heading a
BuildForward(path) ==
    /\ calc.f = "input" /\ IsHeading(calc.a)
    /\ calc' = [calc EXCEPT !.f = "forward", !.b = path,
                            !.r = process_move_forward(<<>>, path, BuilderReads(calc.a))[1].yaw]
    /\ CalcFrame

NextAngles ==
    \/ NormalizeAngle
    \/ NormalizeAgain
    \/ CalculateAngleGap
    \/ \E path \in {0, 1, 2, 6, 7, 8} : BuildTurn(path)
    \/ \E path \in {3, 4, 5} : BuildForward(path)

SpecAngles == InitAngles /\ [][NextAngles]_vars

----------------------------------------------------------------------------
\* BluetoothKeepAliveProvider: two threads calling register_tts_provider and
\* one toggling enabled (provider.enabled = not provider.enabled), interleaved
\* between the statements of the methods.

MaxRegisterCalls == 2

TtsProviders == {"tts1", "tts2"}

Registrars == {"register1", "register2"}

\* seeded fault: the with-statement does not wait for the lock
lock_free_always(k) == TRUE

\* `with self._lock:` can be entered
lock_free(k) == k.lock = "none"

\* the registered list as a set
Registered(k) == {k.tts_providers[i] : i \in 1 .. Len(k.tts_providers)}

InitKeepAlive ==
    /\ pending_movements = <<>>
    /\ movement_attempts = 0
    /\ gap_previous = 0
    /\ ai_control_enabled = TRUE
    /\ sport_client = TRUE
    /\ mode = "none"
    /\ issued = <<>>
    /\ sport_calls = <<>>
    /\ published = <<>>
    /\ op = "init"
    /\ threads = IdleThreads
    /\ calc = NoCalc
    /\ keepalive = NewKeepAlive
    /\ navigation = NewNavigation(TRUE, TRUE)

KeepAliveFrame ==
    UNCHANGED <<pending_movements, movement_attempts, gap_previous, ai_control_enabled,
                sport_client, mode, issued, sport_calls, published, op, threads, calc,
                navigation>>

\* a thread calls register_tts_provider(p)
RegisterCall(t, p) ==
    /\ keepalive.pc[t] = "idle"
    /\ keepalive.calls[t] < MaxRegisterCalls
    /\ keepalive' = [keepalive EXCEPT !.pc[t] = "acquire", !.arg[t] = p,
                                      !.calls[t] = @ + 1]
    /\ KeepAliveFrame

\* with self._lock:
RegisterAcquire(t) ==
    /\ keepalive.pc[t] = "acquire"
    /\ lock_free(keepalive)
    /\ keepalive' = [keepalive EXCEPT !.lock = t, !.pc[t] = "check"]
    /\ KeepAliveFrame

\* if tts_provider not in self._tts_providers:
RegisterCheck(t) ==
    /\ keepalive.pc[t] = "check"
    /\ keepalive' = [keepalive EXCEPT
                       !.pc[t] = IF keepalive.arg[t] \notin Registered(keepalive)
                                 THEN "append" ELSE "release"]
    /\ KeepAliveFrame

\* self._tts_providers.append(tts_provider)
RegisterAppend(t) ==
    /\ keepalive.pc[t] = "append"
    /\ keepalive' = [keepalive EXCEPT !.tts_providers = Append(@, keepalive.arg[t]),
                                      !.pc[t] = "release"]
    /\ KeepAliveFrame

\* leaving the with-statement
RegisterRelease(t) ==
    /\ keepalive.pc[t] = "release"
    /\ keepalive' = [keepalive EXCEPT !.lock = "none", !.pc[t] = "idle"]
    /\ KeepAliveFrame

\* the enabled getter: with self._lock: return self._enabled
EnabledGet ==
    /\ keepalive.pc["toggle"] = "idle"
    /\ lock_free(keepalive)
    /\ keepalive' = [keepalive EXCEPT !.seen = keepalive.enabled, !.pc["toggle"] = "set"]
    /\ KeepAliveFrame

\* the enabled setter: with self._lock: self._enabled = value
EnabledSet ==
    /\ keepalive.pc["toggle"] = "set"
    /\ lock_free(keepalive)
    /\ keepalive' = [keepalive EXCEPT !.enabled = ~keepalive.seen, !.pc["toggle"] = "idle"]
    /\ KeepAliveFrame

NextKeepAlive ==
    \/ \E t \in Registrars : \E p \in TtsProviders : RegisterCall(t, p)
    \/ \E t \in Registrars : RegisterAcquire(t)
    \/ \E t \in Registrars : RegisterCheck(t)
    \/ \E t \in Registrars : RegisterAppend(t)
    \/ \E t \in Registrars : RegisterRelease(t)
    \/ EnabledGet
    \/ EnabledSet

SpecKeepAlive == InitKeepAlive /\ [][NextKeepAlive]_vars

----------------------------------------------------------------------------
\* UnitreeGo2NavigationProvider: the status callback, publish_goal_pose and
\* cancel_navigation, on a provider built with or without a Zenoh session and
\* with or without an IOProvider.

MaxNavStatus == 7
MaxListLen == 2
MaxCancels == 2

\* action_msgs GoalStatus codes; those above 6 are not in status_map
NavStatusCodes == 0 .. MaxNavStatus

\* the status_list of a Nav2Status message, oldest goal first
StatusLists == UNION {[1 .. k -> NavStatusCodes] : k \in 0 .. MaxListLen}

\* status_map.get(status, "UNKNOWN")
status_map(status) ==
    CASE status = 0 -> "UNKNOWN"
      [] status = 1 -> "ACCEPTED"
      [] status = 2 -> "EXECUTING"
      [] status = 3 -> "CANCELING"
      [] status = 4 -> "SUCCEEDED"
      [] status = 5 -> "CANCELED"
      [] status = 6 -> "ABORTED"
      [] OTHER -> "UNKNOWN"

\* self.ai_pub is declared in __init__ when the session is there
ai_pub(n) == n.session

\* code = 0 if status in (1, 2) else 1 if status in (4, 5, 6) else 1
nav_status_code(status) ==
    IF status \in {1, 2} THEN 0 ELSE IF status \in {4, 5, 6} THEN 1 ELSE 1

\* a put of an AIStatusRequest on om/ai/request
ai_put(n, code) ==
    IF ai_pub(n) THEN [n EXCEPT !.sent = <<code>>, !.last_code = code] ELSE n

\* _cancel_current_goal
cancel_current_goal(n) ==
    IF ~n.session THEN n
    ELSE [n EXCEPT !.cancels = @ + 1, !.goal = FALSE]

\* the ai_enabled / _nav_in_progress update of the status callback
nav_status_update(n, status) ==
    IF ~n.io THEN n
    ELSE IF status \in {1, 2}
    THEN [n EXCEPT !.ai_enabled = FALSE, !.nav_in_progress = TRUE]
    ELSE IF status \in {4, 5, 6}
    THEN LET enabled == [n EXCEPT !.ai_enabled = TRUE, !.nav_in_progress = FALSE]
         IN  IF status = 4 THEN cancel_current_goal(enabled) ELSE enabled
    ELSE n

\* navigation_status_message_callback: payload tells whether data.payload is
\* non-empty, status_list is the deserialized list
navigation_status_message_callback(n, payload, status_list) ==
    LET begun == [n EXCEPT !.sent = <<>>]
    IN  IF ~payload \/ status_list = <<>>
        THEN [begun EXCEPT !.call = "status_ignored"]
        ELSE LET latest_status == status_list[Len(status_list)]
                 named == [begun EXCEPT !.navigation_status = status_map(latest_status),
                                        !.call = "status"]
             IN  ai_put(nav_status_update(named, latest_status),
                        nav_status_code(latest_status))

\* publish_goal_pose
publish_goal_pose(n) ==
    LET begun == [n EXCEPT !.sent = <<>>, !.call = "publish_goal_pose"]
    IN  IF ~n.session THEN begun
        ELSE LET goal == [begun EXCEPT !.goal = TRUE]
                 disabled == IF n.io
                             THEN [goal EXCEPT !.ai_enabled = FALSE,
                                               !.nav_in_progress = TRUE]
                             ELSE goal
             IN  ai_put(disabled, 0)

\* cancel_navigation
cancel_navigation(n) ==
    LET begun == [n EXCEPT !.sent = <<>>, !.call = "cancel_navigation"]
        cancelled == cancel_current_goal(begun)
    IN  IF n.io
        THEN [cancelled EXCEPT !.ai_enabled = TRUE, !.nav_in_progress = FALSE]
        ELSE cancelled

InitNavigation ==
    /\ pending_movements = <<>>
    /\ movement_attempts = 0
    /\ gap_previous = 0
    /\ ai_control_enabled = TRUE
    /\ sport_client = TRUE
    /\ mode = "none"
    /\ issued = <<>>
    /\ sport_calls = <<>>
    /\ published = <<>>
    /\ op = "init"
    /\ threads = IdleThreads
    /\ calc = NoCalc
    /\ keepalive = NewKeepAlive
    /\ navigation \in {NewNavigation(session, io) : session \in BOOLEAN, io \in BOOLEAN}

NavigationFrame ==
    UNCHANGED <<pending_movements, movement_attempts, gap_previous, ai_control_enabled,
                sport_client, mode, issued, sport_calls, published, op, threads, calc,
                keepalive>>

\* the result of a call becomes the provider (the count of cancel requests
\* is kept within MaxCancels)
NavigationCall(r) ==
    /\ r.cancels <= MaxCancels
    /\ navigation' = r
    /\ NavigationFrame

NavigationStatus(payload, status_list) ==
    NavigationCall(navigation_status_message_callback(navigation, payload, status_list))

PublishGoalPose == NavigationCall(publish_goal_pose(navigation))

CancelNavigation == NavigationCall(cancel_navigation(navigation))

NextNavigation ==
    \/ \E payload \in BOOLEAN : \E status_list \in StatusLists :
          /\ ~payload => status_list = <<>>
          /\ NavigationStatus(payload, status_list)
    \/ PublishGoalPose
    \/ CancelNavigation

SpecNavigation == InitNavigation /\ [][NextNavigation]_vars

----------------------------------------------------------------------------
\* Properties.

Queued == Len(pending_movements) > 0
Cur == pending_movements[1]

\* a tick that passes the sentinel and posture checks
ValidTick(env) == env.x # 0 /\ env.standing
ValidTicks == {env \in TickCalls : ValidTick(env)}
DeferredTicks == {env \in TickCalls : ~ValidTick(env)}

\* the heading gap a TURNING tick sees for the queued command
TurnGap(env) == calculate_angle_gap(-1 * env.yaw, Cur.yaw)

\* the squared distance an ADVANCING tick sees for the queued command
Traveled2(env) == DistanceSquared(env.x, env.y, Cur.start_x, Cur.start_y)

\* what a call leaves when it changes nothing and calls nothing
Untouched == Outcome(pending_movements, movement_attempts, gap_previous, <<>>, <<>>)

\* C1: the queue holds 0 or 1 MoveCommand in every reachable state, and a
\* submit made while a command is queued enqueues nothing.
C1_SingleSlot ==
    /\ Len(pending_movements) <= 1
    /\ Queued => \A env \in ConnectCalls : \A path \in Draws(env) :
                    connect(env, path).q = pending_movements

\* a submit has run while a command was queued and being worked on
C1_Witness == op = "connect" /\ Len(pending_movements) = 1 /\ movement_attempts > 0

\* C2: an ADVANCING command with dx = 0.5 whose distance traveled stays at or
\* below 0.4 on valid ticks with the straight path clear is kept and gets one
\* more attempt on every tick while the counter is 15 or less, is removed by
\* the tick that finds the counter at 16, and the counter never reaches 17.
C2_TimeoutAtSixteen ==
    /\ movement_attempts <= 16
    /\ (Queued /\ Cur.turn_complete /\ Cur.dx = 500) =>
         \A env \in ValidTicks :
            (4 \in env.paths.advance /\ Traveled2(env) <= 400 * 400) =>
               LET r == tick(env)
               IN  /\ movement_attempts <= 15 =>
                        (r.q = pending_movements /\ r.att = movement_attempts + 1)
                   /\ movement_attempts = 16 =>
                        (r.q = <<>> /\ r.att = 0 /\ r.issued = <<>>)

\* the 16th attempt of a stalled forward command has just been made
C2_Witness ==
    /\ Queued /\ Cur.turn_complete /\ Cur.dx = 500
    /\ op = "tick" /\ movement_attempts = 16 /\ gap_previous = 500
    /\ issued = <<Velocity(500, 0, 0)>>

\* PathAdvisory reports the direction the queued command needs as blocked
NeededBlocked(env) ==
    IF ~Cur.turn_complete
    THEN \/ TurnGap(env) > 0 /\ env.paths.turn_left = {}
         \/ TurnGap(env) < 0 /\ env.paths.turn_right = {}
    ELSE \/ Cur.dx > 0 /\ env.paths.advance = {}
         \/ Cur.dx < 0 /\ ~env.paths.retreat

\* C3 as stated: a command whose needed direction is blocked at its first
\* valid tick is removed by that tick, for every heading gap.
C3_BlockedWithinOneTick ==
    (Queued /\ movement_attempts = 0) =>
        \A env \in ValidTicks : NeededBlocked(env) => tick(env).q = <<>>

\* C3 amended: with the needed direction blocked, a valid tick removes the
\* command (counter reset, nothing issued) whatever the counter is, when the
\* command is ADVANCING or is TURNING with |gap| > 10 degrees; a TURNING tick
\* with 5 < |gap| <= 10 keeps it and issues the fine rotation, and one with
\* |gap| <= 5 keeps it and sets turn_complete.
C3_BlockedAbort ==
    Queued =>
        \A env \in ValidTicks : NeededBlocked(env) =>
            LET r == tick(env)
                g == TurnGap(env)
            IN  /\ (Cur.turn_complete \/ Abs(g) > 10000) =>
                      r = Outcome(<<>>, 0, r.gp, <<>>, <<>>)
                /\ (~Cur.turn_complete /\ Abs(g) > 5000 /\ Abs(g) <= 10000
                        /\ movement_attempts <= 15) =>
                      /\ r.q = pending_movements
                      /\ r.issued = <<Velocity(0, 0, IF g > 0 THEN 200 ELSE -200)>>
                /\ (~Cur.turn_complete /\ Abs(g) <= 5000 /\ movement_attempts <= 15) =>
                      /\ Len(r.q) = 1 /\ r.q[1].turn_complete
                      /\ r.issued = <<>>

\* a tick has removed a command that needed a coarse turn, issuing nothing
C3_Witness ==
    op = "tick" /\ ~Queued /\ Abs(gap_previous) > 10000 /\ issued = <<>>

\* C4: a tick with the sentinel pose or a non-standing robot changes nothing
\* and calls nothing, whatever the queue and the attempt counter are.
C4_DeferredTick ==
    \A env \in DeferredTicks : tick(env) = Untouched

\* a tick has left a command queued whose counter is already past the limit
C4_Witness ==
    op = "tick" /\ Queued /\ movement_attempts = 16 /\ issued = <<>>

\* C5 as stated: a submit that issues the jointLock recovery stand enqueues nothing.
C5_RecoveryRejects ==
    [][(op' = "connect" /\ sport_calls' = <<BalanceStand>>)
          => pending_movements' = pending_movements]_vars

\* the intents connect() drops for a reason the claim lists
C6_Rejected(env) ==
    \/ mode = "guard" /\ env.unknown_faces > 0
    \/ ~ai_control_enabled
    \/ env.action_progress # 0
    \/ env.state_code = 0 /\ env.moving
    \/ Queued
    \/ env.x = 0
    \/ env.action = "turn left" /\ env.paths.turn_left = {}
    \/ env.action = "turn right" /\ env.paths.turn_right = {}
    \/ env.action = "move forwards" /\ env.paths.advance = {}
    \/ env.action = "move back" /\ ~env.paths.retreat
    \/ env.action \notin {"turn left", "turn right", "move forwards", "move back"}

\* C6: no submit issues a velocity command or changes movement_attempts,
\* gap_previous or a queued command, and a rejected submit leaves the queue as it was.
C6_ConnectFrame ==
    \A env \in ConnectCalls : \A path \in Draws(env) :
        LET r == connect(env, path)
        IN  /\ r.issued = <<>>
            /\ \A i \in 1 .. Len(r.sport) : r.sport[i].f # "Move"
            /\ r.att = movement_attempts
            /\ r.gp = gap_previous
            /\ Queued => r.q = pending_movements
            /\ C6_Rejected(env) => r.q = pending_movements

\* a submit has been dropped with the queue empty and an earlier gap still recorded
C6_Witness == op = "connect" /\ ~Queued /\ gap_previous # 0

\* C7: while a command stays queued its dx, yaw, start and speed do not
\* change, turn_complete never goes from true to false, and only a tick changes it.
C7_CommandFrozen ==
    [][(Len(pending_movements) > 0 /\ Len(pending_movements') > 0) =>
          /\ pending_movements'[1].dx = Cur.dx
          /\ pending_movements'[1].yaw = Cur.yaw
          /\ pending_movements'[1].start_x = Cur.start_x
          /\ pending_movements'[1].start_y = Cur.start_y
          /\ pending_movements'[1].speed = Cur.speed
          /\ Cur.turn_complete => pending_movements'[1].turn_complete
          /\ pending_movements'[1].turn_complete # Cur.turn_complete => op' = "tick"]_vars

\* a command built for a 15 degree path has finished its turn after turning attempts
C7_Witness ==
    /\ Queued /\ Cur.turn_complete /\ Cur.yaw = 15000
    /\ op = "tick" /\ movement_attempts > 0 /\ gap_previous = 0

\* C8: a valid tick that finds a TURNING command within 5 degrees of its
\* target sets turn_complete, calls nothing and leaves the counter alone (on
\* a first tick the counter is 0: it is 0 whenever the queue is empty and no
\* submit changes it); and no tick of a command whose turn is complete issues
\* a nonzero vturn.
C8_NoTurnNeeded ==
    /\ ~Queued => movement_attempts = 0
    /\ Queued =>
         \A env \in ValidTicks :
            LET r == tick(env)
            IN  /\ (~Cur.turn_complete /\ Abs(TurnGap(env)) <= 5000
                        /\ movement_attempts <= 15) =>
                      r = Outcome(<<[Cur EXCEPT !.turn_complete = TRUE]>>,
                                  movement_attempts, r.gp, <<>>, <<>>)
                /\ Cur.turn_complete =>
                      /\ \A i \in 1 .. Len(r.issued) : r.issued[i].vturn = 0
                      /\ \A i \in 1 .. Len(r.sport) : r.sport[i].vturn = 0

\* the first tick of a 15 degree command found it within tolerance
C8_Witness ==
    /\ Queued /\ Cur.turn_complete /\ Cur.yaw = 15000
    /\ op = "tick" /\ movement_attempts = 0 /\ issued = <<>>

\* C9: a valid tick removes a queued command with dx == 0 and turn_complete
\* set, resets the counter and calls nothing, whatever the paths are.
C9_NoMovementRequired ==
    (Queued /\ Cur.dx = 0 /\ Cur.turn_complete) =>
        \A env \in ValidTicks :
            tick(env) = Outcome(Tail(pending_movements), 0, gap_previous, <<>>, <<>>)

\* a dx == 0 command has finished its turn after turning attempts
C9_Witness ==
    /\ Queued /\ Cur.dx = 0 /\ Cur.turn_complete
    /\ op = "tick" /\ movement_attempts > 0

\* the barrier check of an ADVANCING tick passes
DirectionClear(env) ==
    \/ Cur.dx > 0 /\ 4 \in env.paths.advance
    \/ Cur.dx < 0 /\ env.paths.retreat

\* what the claim says an overshoot tick leaves behind
OvershootCorrected(r) ==
    /\ r.issued = <<Velocity(IF Cur.dx > 0 THEN -200 ELSE 200, 0, 0)>>
    /\ r.att = movement_attempts + 1
    /\ r.q = pending_movements

\* C10 as stated: an ADVANCING tick with the direction clear that sees the
\* distance traveled exceed |dx| by more than distance_tolerance (0.05)
\* issues the 0.2 correction against dx and keeps the command.
C10_OvershootPastTolerance ==
    (Queued /\ Cur.turn_complete /\ Cur.dx # 0 /\ movement_attempts <= 15) =>
        \A env \in ValidTicks :
            (DirectionClear(env)
                /\ Traveled2(env) > (Abs(Cur.dx) + 50) * (Abs(Cur.dx) + 50)) =>
               OvershootCorrected(tick(env))

\* C10 amended: the same when the distance traveled exceeds |dx| by more than
\* 0.055, so that the gap rounded to 2 decimals is above distance_tolerance.
C10_Overshoot ==
    (Queued /\ Cur.turn_complete /\ Cur.dx # 0 /\ movement_attempts <= 15) =>
        \A env \in ValidTicks :
            (DirectionClear(env)
                /\ Traveled2(env) > (Abs(Cur.dx) + 55) * (Abs(Cur.dx) + 55)) =>
               OvershootCorrected(tick(env))

\* a forward command has just been sent the backward correction
C10_Witness ==
    /\ Queued /\ Cur.dx = 500 /\ op = "tick"
    /\ issued = <<Velocity(-200, 0, 0)>> /\ gap_previous = 100

\* the command a move_forward submit builds for the straight path at heading 0
StraightForward(env) ==
    MoveCommand(500, 0, Round2(env.x), Round2(env.y), TRUE, 500)

\* a move_forward submit that passes every guard with path 4 the one advance
\* path offered and the heading 0
StraightSubmit(env) ==
    /\ env.action = "move forwards" /\ ~C6_Rejected(env)
    /\ env.paths.advance = {4} /\ env.yaw = 0

\* the end-to-end run of C11 with "short of the goal" meaning a distance
\* traveled below `short`: the submit builds the straight command; a valid
\* tick of that command (path 4 still offered, counter within the limit)
\* issues vx = +0.5 and keeps it while the distance is below `short`, and
\* removes it, counter reset and nothing issued, when the distance is within
\* 0.05 of 0.5.
StraightRun(short) ==
    /\ \A env \in ConnectCalls : StraightSubmit(env) =>
          connect(env, 4).q = <<StraightForward(env)>>
    /\ (Queued /\ Cur.dx = 500 /\ Cur.yaw = 0 /\ Cur.turn_complete
            /\ movement_attempts <= 15) =>
          \A env \in ValidTicks : 4 \in env.paths.advance =>
             LET r == tick(env)
                 n == Traveled2(env)
             IN  /\ n < short * short =>
                       /\ r.issued = <<Velocity(500, 0, 0)>>
                       /\ r.q = pending_movements
                       /\ r.att = movement_attempts + 1
                 /\ (n >= 450 * 450 /\ n <= 550 * 550) =>
                       r = Outcome(<<>>, 0, r.gp, <<>>, <<>>)

\* C11 as stated: the straight command is driven at vx = +0.5 on every valid
\* tick that sees the distance traveled below 0.45.
C11_StraightBelowTolerance == StraightRun(450)

\* C11 amended: the straight command is driven at vx = +0.5 on every valid
\* tick that sees the distance traveled below 0.445 (a gap that rounds to
\* more than 0.05), and is removed as completed normally by a valid tick that
\* sees the distance within 0.05 of 0.5.
C11_StraightRun == StraightRun(445)

\* the straight command built at the start pose has been driven forward by a tick
C11_Witness ==
    /\ Queued /\ Cur = MoveCommand(500, 0, 1000, 2000, TRUE, 500)
    /\ op = "tick" /\ issued = <<Velocity(500, 0, 0)>> /\ movement_attempts = 1

\* C12: clean_abort leaves the queue empty and the counter 0; on an empty
\* queue it changes nothing (its get() runs only on a non-empty queue), and a
\* second call right after the first leaves what the first left.
C12_CleanAbort ==
    LET once == clean_abort(pending_movements, gap_previous)
        twice == clean_abort(once.q, once.gp)
    IN  /\ once.q = <<>> /\ once.att = 0
        /\ ~Queued => once = Untouched
        /\ twice = once
        /\ op = "clean_abort" => (~Queued /\ movement_attempts = 0)

\* a command that had been worked on has been cancelled from outside tick()
C12_Witness ==
    op = "clean_abort" /\ ~Queued /\ movement_attempts = 0 /\ gap_previous = 500

\* C13: with connect() and tick() on two threads interleaved between queue
\* operations, the queue never holds more than one command, the get() of
\* clean_abort never runs on an empty queue, and the command a tick removes
\* is the one in its snapshot.
C13_TwoThreads ==
    /\ Len(pending_movements) <= 1
    /\ Len(threads.serials) = Len(pending_movements)
    /\ ~threads.blocked
    /\ threads.tick_pc = "get" => Len(pending_movements) > 0
    /\ threads.got # 0 => threads.got = threads.target[1]

\* a tick has removed the command it inspected while the submit thread stood
\* between its queue test and its put, and an earlier command had gone before
C13_Witness ==
    /\ threads.got = 2 /\ threads.tick_pc = "idle"
    /\ threads.submit_pc = "put" /\ pending_movements = <<>>

\* the five ways a valid tick takes the queued command out of the queue
LeavesQueue(env) ==
    \/ movement_attempts > 15
    \/ Cur.turn_complete /\ Cur.dx = 0
    \/ Cur.turn_complete /\ Cur.dx # 0 /\ ~DirectionClear(env)
    \/ Cur.turn_complete /\ Cur.dx # 0 /\ DirectionClear(env)
          /\ DistanceGap(Cur.dx, env.x, env.y, Cur.start_x, Cur.start_y) <= 50
    \/ ~Cur.turn_complete /\ Abs(TurnGap(env)) > 10000
          /\ (IF TurnGap(env) > 0 THEN env.paths.turn_left = {} ELSE env.paths.turn_right = {})

\* C14: a tick that takes the command out of the queue (timeout, dx == 0,
\* barrier while turning, barrier while advancing, normal completion) leaves
\* the counter at 0 and no other tick removes it; the counter is 0 whenever
\* the queue is empty; and a submit that enqueues a command leaves it at 0.
C14_CounterReset ==
    /\ ~Queued => movement_attempts = 0
    /\ Queued => \A env \in ValidTicks :
          LET r == tick(env)
          IN  /\ LeavesQueue(env) => (r.q = <<>> /\ r.att = 0)
              /\ ~LeavesQueue(env) => Len(r.q) = 1
    /\ \A env \in ConnectCalls : \A path \in Draws(env) :
          LET r == connect(env, path)
          IN  (~Queued /\ Len(r.q) = 1) => r.att = 0

\* a command has been accepted after an earlier one was worked on and left
C14_Witness ==
    op = "connect" /\ Queued /\ movement_attempts = 0 /\ gap_previous = 500

\* what C15 says of normalize_angle and of the builders, the range of the
\* result being above -180 (or at it when `closed`) and at most 180
NormalizedRange(closed) ==
    LET InRange(r) == (r > -180000 \/ (closed /\ r = -180000)) /\ r <= 180000
    IN  /\ (calc.f = "normalize_angle" /\ calc.a > -540000 /\ calc.a < 540000) =>
              (InRange(calc.r) /\ (calc.r - calc.a) % 360000 = 0)
        /\ calc.f \in {"turn", "forward"} => InRange(calc.r)

\* C15 as stated: for a in (-540, 540) normalize_angle(a) lies in (-180, 180]
\* and differs from a by a multiple of 360, and a turn or forward command
\* built from a heading in (-180, 180] has its yaw in (-180, 180].
C15_HalfOpenRange == NormalizedRange(FALSE)

\* C15 amended: the same with the closed range [-180, 180].
C15_ClosedRange == NormalizedRange(TRUE)

\* an angle just inside -540 has been wrapped once to just inside -180
C15_Witness ==
    calc.f = "normalize_angle" /\ calc.a = -539996 /\ calc.r = -179996

AngleGapLaw(slack) ==
    calc.f = "calculate_angle_gap" =>
        /\ calc.r >= -180000 /\ calc.r <= 180000
        /\ \E k \in -1 .. 1 : Abs(calc.r - (calc.a - calc.b + k * 360000)) <= slack
        /\ calc.r = -1 * calc.r2

\* C17 as stated: for headings h1, h2 in (-180, 180] the gap lies in
\* [-180, 180], is congruent to h1 - h2 modulo 360 and changes sign when the
\* arguments are swapped.
C17_ExactCongruence == AngleGapLaw(0)

\* C17 amended: the gap lies in [-180, 180], is within 0.005 of a value
\* congruent to h1 - h2 modulo 360 (it is that value rounded to 2 decimals)
\* and changes sign when the arguments are swapped.
C17_RoundedCongruence ==
    AngleGapLaw(5) /\ (calc.f = "calculate_angle_gap" => calc.r % 10 = 0)

\* a gap beyond half a turn has been wrapped the short way round
C17_Witness ==
    /\ calc.f = "calculate_angle_gap" /\ calc.a = 120000 /\ calc.b = -119996
    /\ calc.r = -120000 /\ calc.r2 = 120000

\* C18 as stated: a tick that goes to issue a velocity command while the
\* robot is not standing sends the stand recovery to the actuator and not
\* the velocity command.
C18_StandRecovery ==
    sport_client =>
        \A env \in TickCalls :
            LET r == tick(env)
            IN  (r.issued # <<>> /\ ~env.standing_at_move) => r.sport = <<BalanceStand>>

\* C19 as stated: every tick makes at most one call on the actuator, the
\* standing robot with the jointLock state included, and a tick with an empty
\* queue makes none.
C19_OneSend ==
    \A env \in TickCalls :
        LET r == tick(env)
        IN  /\ Len(r.sport) <= 1
            /\ ~Queued => r.sport = <<>>

\* C20 as stated: a move_back command (dx = -0.5) is removed as completed
\* normally, nothing issued, by a valid tick with retreat allowed that sees
\* the distance traveled within 0.05 of 0.5, the counter being within the limit.
C20_BackCompletes ==
    (Queued /\ Cur.turn_complete /\ Cur.dx = -500 /\ movement_attempts <= 15) =>
        \A env \in ValidTicks :
            (env.paths.retreat /\ Traveled2(env) >= 450 * 450
                /\ Traveled2(env) <= 550 * 550) =>
               tick(env) = Outcome(<<>>, 0, tick(env).gp, <<>>, <<>>)

\* the gap an ADVANCING tick computes leaves the command short of completion
NotArrived(env) ==
    DistanceGap(Cur.dx, env.x, env.y, Cur.start_x, Cur.start_y) > 50

\* what C21 says of an ADVANCING tick whose gap is above tolerance (so that
\* a removal is an abort): it removes the command exactly when the required
\* direction is blocked, a forward command being blocked when `ahead` holds
\* of the offered advance paths
BlockedExactlyWhen(ahead(_)) ==
    (Queued /\ Cur.turn_complete /\ Cur.dx # 0 /\ movement_attempts <= 15) =>
        \A env \in ValidTicks : NotArrived(env) =>
            LET r == tick(env)
                blocked == \/ Cur.dx > 0 /\ ahead(env.paths.advance)
                           \/ Cur.dx < 0 /\ ~env.paths.retreat
            IN  /\ blocked <=> r.q = <<>>
                /\ blocked => (r.att = 0 /\ r.issued = <<>>)

NoPathOffered(advance) == advance = {}
StraightNotOffered(advance) == 4 \notin advance

\* C21 as stated: an ADVANCING tick aborts a forward command as blocked
\* exactly when no advance path is offered, a backward one exactly when
\* retreat is not allowed.
C21_BlockedIffNoPath == BlockedExactlyWhen(NoPathOffered)

\* C21 amended: an ADVANCING tick aborts a forward command as blocked exactly
\* when the straight-ahead path (id 4) is not among the offered advance
\* paths, a backward one exactly when retreat is not allowed.
C21_BlockedIffStraightBlocked == BlockedExactlyWhen(StraightNotOffered)

\* a forward command built for the 15 degree path has turned and has then
\* been removed by a tick short of its goal, before any advance was made
C21_Witness ==
    /\ op = "tick" /\ ~Queued /\ movement_attempts = 0
    /\ gap_previous = 500 /\ issued = <<>>

\* a submit that gets past every guard of connect() to the builders
GuardsPass(env) ==
    /\ ~(mode = "guard" /\ env.unknown_faces > 0)
    /\ ai_control_enabled
    /\ env.action_progress = 0
    /\ ~(env.state_code = 0 /\ env.moving)
    /\ ~Queued
    /\ env.x # 0

\* what C22 says of the turn and forward builders; `exact` tells whether the
\* start is the position itself and the yaw the normalized sum itself, or
\* both as rounded to 2 decimals (the yaw of a turn intent only)
BuilderLaw(exact) ==
    \A env \in ConnectCalls :
        (GuardsPass(env) /\ env.action \in {"turn left", "turn right", "move forwards"}) =>
            \A path \in Draws(env) :
                LET r == connect(env, path)
                    target == normalize_angle(-1 * env.yaw + PathAngle(path))
                    turn == env.action # "move forwards"
                IN  IF offered(env.action, env.paths) = {} THEN r.q = <<>>
                    ELSE /\ Len(r.q) = 1
                         /\ r.q[1].dx = 500
                         /\ r.q[1].speed = 500
                         /\ r.q[1].start_x = (IF exact THEN env.x ELSE Round2(env.x))
                         /\ r.q[1].start_y = (IF exact THEN env.y ELSE Round2(env.y))
                         /\ r.q[1].yaw = (IF exact \/ ~turn THEN target ELSE Round2(target))
                         /\ r.q[1].turn_complete <=> (~turn /\ PathAngle(path) = 0)

\* C22 as stated: a turn or forward intent that passes the guards enqueues
\* nothing when no path is offered in its direction, and otherwise one command
\* with dx = 0.5, start = the current position, yaw = normalize_angle(heading
\* + offset of the drawn path) and turn_complete exactly for move_forward on
\* a path of offset 0.
C22_BuilderExact == BuilderLaw(TRUE)

\* C22 amended: the same with start = the current position rounded to 2
\* decimals, and the yaw of a turn intent rounded to 2 decimals.
C22_BuilderRounded == BuilderLaw(FALSE)

\* a turn_left submit has enqueued the command for the 45 degree path
C22_Witness ==
    /\ op = "connect" /\ Queued /\ ~Cur.turn_complete /\ movement_attempts = 0
    /\ Cur = MoveCommand(500, 45000, 1000, 2000, FALSE, 500)

\* C23: a move_back intent that passes the guards enqueues a command only
\* when retreat is allowed; a queued backward command has dx = -0.5, yaw = 0,
\* turn_complete set and speed 0.2; no tick issues a rotation for it, and what
\* a tick issues for it while the distance traveled is below 0.5 is (-0.2, 0, 0).
C23_MoveBack ==
    /\ \A env \in ConnectCalls : (GuardsPass(env) /\ env.action = "move back") =>
          connect(env, straight_path).q =
              IF env.paths.retreat
              THEN <<MoveCommand(-500, 0, Round2(env.x), Round2(env.y), TRUE, 200)>>
              ELSE <<>>
    /\ (Queued /\ Cur.dx < 0) =>
          /\ Cur.dx = -500 /\ Cur.yaw = 0 /\ Cur.turn_complete /\ Cur.speed = 200
          /\ \A env \in ValidTicks :
                LET r == tick(env)
                IN  /\ Len(r.q) = 1 => r.q[1].turn_complete
                    /\ \A i \in 1 .. Len(r.issued) :
                          /\ r.issued[i].vturn = 0 /\ r.issued[i].vy = 0
                          /\ Traveled2(env) < 500 * 500 => r.issued[i].vx = -200

\* a tick has driven a backward command backwards at 0.2
C23_Witness ==
    /\ op = "tick" /\ Queued /\ Cur.dx = -500
    /\ issued = <<Velocity(-200, 0, 0)>> /\ movement_attempts = 1

\* C24: what a TURNING tick issues turns the way the heading gap points; with
\* 5 < |gap| <= 10 it issues (0, 0, +0.2) or (0, 0, -0.2) and keeps the
\* command whatever the paths are; with |gap| > 10 it aborts when the side the
\* gap points to (turn_left for gap > 0, turn_right for gap < 0) offers no
\* path, and otherwise issues vturn = +0.8 or -0.8 with vy = 0 and vx >= 0.
C24_TurnDirection ==
    (Queued /\ ~Cur.turn_complete /\ movement_attempts <= 15) =>
        \A env \in ValidTicks :
            LET r == tick(env)
                g == TurnGap(env)
                side == IF g > 0 THEN env.paths.turn_left ELSE env.paths.turn_right
            IN  /\ \A i \in 1 .. Len(r.issued) :
                      /\ r.issued[i].vturn > 0 <=> g > 0
                      /\ r.issued[i].vturn < 0 <=> g < 0
                /\ (Abs(g) > 5000 /\ Abs(g) <= 10000) =>
                      /\ r.issued = <<Velocity(0, 0, IF g > 0 THEN 200 ELSE -200)>>
                      /\ r.q = pending_movements
                /\ (Abs(g) > 10000 /\ side = {}) =>
                      r = Outcome(<<>>, 0, g, <<>>, <<>>)
                /\ (Abs(g) > 10000 /\ side # {}) =>
                      /\ r.q = pending_movements
                      /\ Len(r.issued) = 1
                      /\ r.issued[1].vturn = (IF g > 0 THEN 800 ELSE -800)
                      /\ r.issued[1].vy = 0
                      /\ r.issued[1].vx >= 0

\* a fine left rotation has been issued for a command with 10 degrees to go
C24_Witness ==
    /\ op = "tick" /\ Queued /\ ~Cur.turn_complete
    /\ issued = <<Velocity(0, 0, 200)>> /\ gap_previous = 10000

\* what the claim says a status request with this code leaves and answers
StatusHandled(code) ==
    /\ ai_control_enabled' = (IF code = 0 THEN FALSE
                              ELSE IF code = 1 THEN TRUE
                              ELSE ai_control_enabled)
    /\ code = 0 => published' = <<0>>
    /\ code = 1 => published' = <<1>>
    /\ code = 2 => published' = <<IF ai_control_enabled THEN 1 ELSE 0>>
    /\ code \notin {0, 1, 2} => published' = <<>>

\* C25: the AI-control flag starts enabled; only a status request changes it,
\* code 0 clearing it and code 1 setting it, code 2 leaving it and answering 1
\* when it is set and 0 when it is clear; and while it is clear a submit
\* enqueues nothing.
C25_AiControl ==
    /\ ai_control_enabled = TRUE
    /\ [][/\ op' # "ai_status" => ai_control_enabled' = ai_control_enabled
          /\ op' = "ai_status" => \E code \in StatusCodes : StatusHandled(code)
          /\ (~ai_control_enabled /\ op' = "connect") =>
                pending_movements' = pending_movements]_vars

\* a submit has been dropped with the queue empty while AI control was disabled
C25_Witness ==
    ~ai_control_enabled /\ op = "connect" /\ ~Queued /\ gap_previous = 0

\* C26: for every interleaving of register_tts_provider calls and toggles of
\* enabled, no provider is in the registered list twice, and a call for a
\* provider already in the list does not get to the append.
C26_RegisteredOnce ==
    /\ \A i, j \in 1 .. Len(keepalive.tts_providers) :
          i # j => keepalive.tts_providers[i] # keepalive.tts_providers[j]
    /\ \A t \in Registrars :
          keepalive.pc[t] = "append" => keepalive.arg[t] \notin Registered(keepalive)

\* both providers are registered, a second call for a registered provider has
\* found it in the list while the other thread waits for the lock, and the
\* flag has been toggled
C26_Witness ==
    /\ Len(keepalive.tts_providers) = 2
    /\ keepalive.pc["register1"] = "release" /\ keepalive.calls["register1"] = 2
    /\ keepalive.pc["register2"] = "acquire"
    /\ keepalive.arg["register1"] = keepalive.arg["register2"]
    /\ ~keepalive.enabled

\* the valid ticks a queue can still take: one per attempt left before the
\* counter passes the limit, one for completing the turn, and the removing one
TicksLeft(q, attempts) ==
    IF Len(q) = 0 THEN 0
    ELSE (movement_attempt_limit + 1 - attempts)
            + (IF q[1].turn_complete THEN 0 ELSE 1) + 1

\* C27: a command is removed within movement_attempt_limit + 3 valid ticks:
\* an accepted command has at most that many valid ticks left, a queued
\* command has at least one left, and every valid tick, whatever pose and
\* paths it reads, removes the command or leaves it with fewer.
C27_Terminates ==
    /\ \A env \in ConnectCalls : \A path \in Draws(env) :
          LET r == connect(env, path)
          IN  ~Queued => TicksLeft(r.q, r.att) <= movement_attempt_limit + 3
    /\ Queued =>
          /\ TicksLeft(pending_movements, movement_attempts) >= 1
          /\ \A env \in ValidTicks :
                LET r == tick(env)
                IN  /\ Len(r.q) <= 1
                    /\ TicksLeft(r.q, r.att) < TicksLeft(pending_movements, movement_attempts)

\* a command built for the 15 degree path has had its turn completed and its
\* 16th attempt made: 17 valid ticks, and it is still queued
C27_Witness ==
    /\ Queued /\ Cur.turn_complete /\ Cur.yaw = 15000 /\ op = "tick"
    /\ movement_attempts = 16 /\ gap_previous = 500 /\ issued = <<Velocity(500, 0, 0)>>

\* C28: the counter never passes movement_attempt_limit + 1; the tick that
\* completes the turn leaves it as it is and resets gap_previous; and a tick
\* issues a velocity command only together with an increment of the counter,
\* so one command gets at most movement_attempt_limit + 1 of them.
C28_SharedCounter ==
    /\ movement_attempts <= movement_attempt_limit + 1
    /\ Queued =>
          \A env \in ValidTicks :
             LET r == tick(env)
             IN  /\ (~Cur.turn_complete /\ Len(r.q) = 1 /\ r.q[1].turn_complete) =>
                       (r.att = movement_attempts /\ r.gp = 0)
                 /\ r.issued # <<>> =>
                       /\ Len(r.issued) = 1
                       /\ r.att = movement_attempts + 1
                       /\ r.q = pending_movements

\* a command has completed its turn after turning attempts and has then been
\* sent the overshoot correction on the same count
C28_Witness ==
    /\ Queued /\ Cur.turn_complete /\ Cur.yaw = 15000 /\ op = "tick"
    /\ movement_attempts = 9 /\ issued = <<Velocity(-200, 0, 0)>>

\* why a valid tick may remove the queued command: the counter is past the
\* limit, the side it has to turn to or the way it has to go is blocked, or
\* it has nothing (left) to travel
RemovalDue(env) ==
    \/ timed_out(movement_attempts)
    \/ /\ ~Cur.turn_complete
       /\ turn_phase(TurnGap(env)) = "coarse"
       /\ ~execute_turn_clear(TurnGap(env), env.paths)
    \/ /\ Cur.turn_complete
       /\ \/ no_movement_required(Cur.dx)
          \/ advance_blocked(Cur.dx, env.paths)
          \/ DistanceGap(Cur.dx, env.x, env.y, Cur.start_x, Cur.start_y)
                <= distance_tolerance

\* what a valid tick does for the queued command: it removes it for one of
\* the reasons above, or marks its turn complete, or issues one velocity
\* command for it and counts the attempt
TickProgress(env) ==
    LET r == tick(env)
    IN  \/ r.q = <<>> /\ RemovalDue(env)
        \/ /\ ~Cur.turn_complete
           /\ r.q = <<turn_completed(Cur)>>
           /\ r.att = movement_attempts /\ r.issued = <<>>
        \/ /\ r.q = pending_movements
           /\ r.att = movement_attempts + 1 /\ Len(r.issued) = 1

\* C29: a status request leaves the queue, the counter and the gap as they
\* are; while a command is queued with AI control disabled or in guard mode,
\* a submit dropped by either guard changes nothing, and every valid tick
\* goes on with the command: it removes it by completion, barrier block or
\* timeout, or completes its turn, or issues a velocity command for it.
C29_NotCancelled ==
    /\ [](Queued /\ (~ai_control_enabled \/ mode = "guard") =>
            /\ \A env \in ConnectCalls : \A path \in Draws(env) :
                  ((mode = "guard" /\ env.unknown_faces > 0) \/ ~ai_control_enabled)
                      => connect(env, path) = Untouched
            /\ \A env \in ValidTicks : TickProgress(env))
    /\ [][op' = "ai_status" =>
            UNCHANGED <<pending_movements, movement_attempts, gap_previous>>]_vars

\* AI control was disabled in guard mode after the command was accepted, and
\* valid ticks have gone on issuing velocity commands for it
C29_Witness ==
    /\ ~ai_control_enabled /\ mode = "guard" /\ op = "tick"
    /\ Queued /\ movement_attempts >= 2 /\ issued # <<>>

\* C30: with the session and the IOProvider there, the code a handled status
\* message publishes is 1 when ai_enabled is true and 0 when it is false, and
\* while a navigation is in progress ai_enabled is false and the last call
\* has published no enable code.
C30_PublishedAgrees ==
    (navigation.session /\ navigation.io) =>
        /\ navigation.call = "status" =>
              navigation.sent = <<IF navigation.ai_enabled THEN 1 ELSE 0>>
        /\ navigation.nav_in_progress =>
              (~navigation.ai_enabled /\ navigation.sent # <<1>>)

====
